---- MODULE Spec2Model ----
(***************************************************************************)
(* Model of the sliding-window OCR pipeline of wjwDigital (src/ocr.py):    *)
(* OCRScan.ocr_on_image tiles a page image, runs _ocr_on_section on every  *)
(* tile in a ThreadPoolExecutor, collects the futures, picks the most      *)
(* common extracted code and runs once more when nothing was found.        *)
(*                                                                         *)
(* Text is a sequence of one-character strings; Python's None is the       *)
(* value None below, the empty string is << >>.                            *)
(***************************************************************************)
EXTENDS Integers, Sequences, FiniteSets, TLC

(***************************************************************************)
(* Bounds of the model.                                                    *)
(***************************************************************************)
\* largest image width/height (pixels) of a document run through the pool
MaxDim == 2
\* largest image width/height (pixels) explored by the planning loops alone
MaxPlanDim == 7
\* tiles per pass of a document run through the pool
MaxTiles == 4
\* threads of the executor that run at the same time
MaxWorkers == 2
\* cap of the pass counter (the code needs two)
MaxPasses == 4

(***************************************************************************)
(* Strings.                                                                *)
(***************************************************************************)
None == <<"#None">>

Digits == {"0", "1", "2", "3", "4", "5", "6", "7", "8", "9"}

Letters == {"a", "b", "c", "d", "e", "f", "g", "h", "i", "j", "k", "l", "m",
            "n", "o", "p", "q", "r", "s", "t", "u", "v", "w", "x", "y", "z",
            "A", "B", "C", "D", "E", "F", "G", "H", "I", "J", "K", "L", "M",
            "N", "O", "P", "Q", "R", "S", "T", "U", "V", "W", "X", "Y", "Z"}

\* \w of Python's re on str
WordChars == Digits \cup Letters \cup {"_"}

\* bool(value) of a str-or-None value
Truthy(s) == s # None /\ s # << >>

IsDigitAt(t, i) == i >= 1 /\ i <= Len(t) /\ t[i] \in Digits

IsWordAt(t, i) == i >= 1 /\ i <= Len(t) /\ t[i] \in WordChars

IsCharAt(t, i, c) == i >= 1 /\ i <= Len(t) /\ t[i] = c

\* needle in hay (Python's substring test)
Contains(hay, needle) ==
    \E i \in 1..(Len(hay) - Len(needle) + 1) :
        SubSeq(hay, i, i + Len(needle) - 1) = needle

\* sep.join(parts)
RECURSIVE Join(_, _)
Join(parts, sep) ==
    IF parts = << >> THEN << >>
    ELSE IF Len(parts) = 1 THEN parts[1]
    ELSE parts[1] \o sep \o Join(Tail(parts), sep)

(***************************************************************************)
(* Regular expressions of PATTERNS and of _check_folder_name.  MatchEnd    *)
(* gives the index after a match starting at i, 0 when there is none.      *)
(***************************************************************************)
\* first index >= i that is not a digit of t
RECURSIVE DigitRunEnd(_, _)
DigitRunEnd(t, i) == IF IsDigitAt(t, i) THEN DigitRunEnd(t, i + 1) ELSE i

\* \d{2}-\w{10}
MatchEndWord(t, i) ==
    IF /\ IsDigitAt(t, i) /\ IsDigitAt(t, i + 1) /\ IsCharAt(t, i + 2, "-")
       /\ \A k \in (i + 3)..(i + 12) : IsWordAt(t, k)
    THEN i + 13 ELSE 0

\* \d{2}-\d+-\d{2}-\d   (\d+ is greedy and can only end at the next "-")
MatchEndGrouped(t, i) ==
    LET k == DigitRunEnd(t, i + 3) IN
    IF /\ IsDigitAt(t, i) /\ IsDigitAt(t, i + 1) /\ IsCharAt(t, i + 2, "-")
       /\ k > i + 3
       /\ IsCharAt(t, k, "-") /\ IsDigitAt(t, k + 1) /\ IsDigitAt(t, k + 2)
       /\ IsCharAt(t, k + 3, "-") /\ IsDigitAt(t, k + 4)
    THEN k + 5 ELSE 0

\* \d{2}-\d{2}
MatchEndFolder(t, i) ==
    IF /\ IsDigitAt(t, i) /\ IsDigitAt(t, i + 1) /\ IsCharAt(t, i + 2, "-")
       /\ IsDigitAt(t, i + 3) /\ IsDigitAt(t, i + 4)
    THEN i + 5 ELSE 0

PATTERNS == <<"word", "grouped">>

MatchEnd(pattern, t, i) ==
    CASE pattern = "word" -> MatchEndWord(t, i)
      [] pattern = "grouped" -> MatchEndGrouped(t, i)
      [] pattern = "folder" -> MatchEndFolder(t, i)

\* re.findall(pattern, t) from position i on: leftmost, non-overlapping
RECURSIVE FindAllFrom(_, _, _)
FindAllFrom(pattern, t, i) ==
    IF i > Len(t) THEN << >>
    ELSE LET e == MatchEnd(pattern, t, i) IN
         IF e = 0 THEN FindAllFrom(pattern, t, i + 1)
         ELSE <<SubSeq(t, i, e - 1)>> \o FindAllFrom(pattern, t, e)

FindAll(pattern, t) == FindAllFrom(pattern, t, 1)

\* re.search(pattern, t) is not None
Search(pattern, t) == FindAll(pattern, t) # << >>

(***************************************************************************)
(* OCRScan._is_file_in_desired_format, _check_folder_name, _postprocess.   *)
(***************************************************************************)
Ext == <<".", "t", "i", "f">>

\* file_name is the name without its extension; the search runs on the basename
_is_file_in_desired_format(file_name, patterns) ==
    \E k \in 1..Len(patterns) : Search(patterns[k], file_name \o Ext)

\* variant: the code is kept whenever the folder name has starting numbers
_check_folder_name_anycode(extracted_text, folder_name) ==
    IF ~Truthy(extracted_text) THEN None
    ELSE LET found == FindAll("folder", folder_name)
             folder_start_numbers == IF found # << >> THEN found[1] ELSE None
         IN  IF Truthy(folder_start_numbers) THEN extracted_text ELSE None

_check_folder_name(extracted_text, folder_name) ==
    IF ~Truthy(extracted_text) THEN None
    ELSE LET found == FindAll("folder", folder_name)
             folder_start_numbers == IF found # << >> THEN found[1] ELSE None
         IN  IF Truthy(folder_start_numbers)
                /\ Contains(extracted_text, folder_start_numbers)
             THEN extracted_text
             ELSE None

\* matched_text after the loop over the first k patterns
RECURSIVE MatchedText(_, _, _)
MatchedText(text, patterns, k) ==
    IF k = 0 THEN << >>
    ELSE MatchedText(text, patterns, k - 1) \o FindAll(patterns[k], text)

\* variant: the last collected match is taken
FilteredText_last(text, patterns) ==
    LET matched_text == MatchedText(text, patterns, Len(patterns))
    IN  IF matched_text # << >> THEN matched_text[Len(matched_text)] ELSE None

\* filtered_text before the folder check
FilteredText(text, patterns) ==
    LET matched_text == MatchedText(text, patterns, Len(patterns))
    IN  IF matched_text # << >> THEN matched_text[1] ELSE None

\* variant: the first match is returned without the folder check
_postprocess_nocheck(text, patterns, folder_name) == FilteredText(text, patterns)

_postprocess(text, patterns, folder_name) ==
    _check_folder_name(FilteredText(text, patterns), folder_name)

(***************************************************************************)
(* OCRScan._preprocess_image.  An image is [kind, mode, width, height];    *)
(* kind tells the original pixels from the output of the enhancement.      *)
(***************************************************************************)
UpscaleFactor == 2

_preprocess_image(image, enhance) ==
    IF enhance
    THEN [kind |-> "enhanced", mode |-> "L",
          width |-> image.width * UpscaleFactor,
          height |-> image.height * UpscaleFactor]
    ELSE [image EXCEPT !.mode = "L"]

(***************************************************************************)
(* OCRScan._ocr_image.  The engine either fails or returns the rows of     *)
(* image_to_data: [block_num, conf, text]; conf = -1 marks a layout row.   *)
(***************************************************************************)
RECURSIVE SortedSeq(_)
SortedSeq(S) ==
    IF S = {} THEN << >>
    ELSE LET m == CHOOSE a \in S : \A b \in S : a <= b
         IN  <<m>> \o SortedSeq(S \ {m})

RECURSIVE SumConf(_)
SumConf(rows) == IF rows = << >> THEN 0 ELSE rows[1].conf + SumConf(Tail(rows))

IsToken(r) == r.conf # -1

\* the value of _preprocess_image that is handed to the engine
EngineInput(image_obj) == _preprocess_image(image_obj, FALSE)

_ocr_image(engine) ==
    IF engine.fails
    THEN [isNone |-> TRUE, lines |-> << >>, conf |-> << >>]
    ELSE LET data == SelectSeq(engine.rows, IsToken)
             blocks == SortedSeq({data[k].block_num : k \in 1..Len(data)})
             OfBlock(b) == LET InB(r) == r.block_num = b IN SelectSeq(data, InB)
         IN  [isNone |-> FALSE,
              lines |-> [k \in 1..Len(blocks) |->
                           LET rs == OfBlock(blocks[k])
                           IN  [j \in 1..Len(rs) |-> rs[j].text]],
              conf |-> [k \in 1..Len(blocks) |->
                           LET rs == OfBlock(blocks[k])
                           IN  [sum |-> SumConf(rs), n |-> Len(rs)]]]

(***************************************************************************)
(* confidences.mean() < threshold, with the mean of the block means kept   *)
(* as an exact fraction: sum_b(sum_b / n_b) / B < T.                        *)
(***************************************************************************)
RECURSIVE ProdN(_)
ProdN(conf) == IF conf = << >> THEN 1 ELSE conf[1].n * ProdN(Tail(conf))

RECURSIVE ScaledSum(_, _)
ScaledSum(conf, prod) ==
    IF conf = << >> THEN 0
    ELSE conf[1].sum * (prod \div conf[1].n) + ScaledSum(Tail(conf), prod)

\* average_confidence as the fraction num / den
AverageConfidence(conf) ==
    IF conf = << >> THEN [num |-> 0, den |-> 1]
    ELSE [num |-> ScaledSum(conf, ProdN(conf)), den |-> Len(conf) * ProdN(conf)]

\* variant: a confidence equal to the threshold is skipped too
BelowThreshold_orequal(conf, threshold) ==
    LET avg == AverageConfidence(conf) IN avg.num <= threshold * avg.den

BelowThreshold(conf, threshold) ==
    LET avg == AverageConfidence(conf) IN avg.num < threshold * avg.den

Space == <<" ">>

Newline == <<"\n">>

SectionText(lines) ==
    Join([k \in 1..Len(lines) |-> Join(lines[k], Space)], Newline)

(***************************************************************************)
(* OCRScan._ocr_on_section.  A call ends as [exc, value]: exc tells that   *)
(* an exception left the function, value is what it returned.              *)
(***************************************************************************)
Returned(v) == [exc |-> FALSE, value |-> v]

Raised == [exc |-> TRUE, value |-> None]

\* the statements inside the try of _ocr_on_section
SectionBody(engine, threshold, patterns, folder_name) ==
    LET ocr == _ocr_image(engine)
        section_text == IF ~ocr.isNone THEN SectionText(ocr.lines) ELSE << >>
    IN  IF ocr.isNone THEN Raised  \* confidences is None: no attribute 'empty'
        ELSE IF BelowThreshold(ocr.conf, threshold) THEN Returned(None)
        ELSE LET processed_text == _postprocess(section_text, patterns, folder_name)
             IN  IF Truthy(processed_text) THEN Returned(processed_text)
                 ELSE Returned(None)

\* variant: no try/except around the body
_ocr_on_section_notry(engine, threshold, patterns, folder_name) ==
    SectionBody(engine, threshold, patterns, folder_name)

_ocr_on_section(engine, threshold, patterns, folder_name) ==
    LET body == SectionBody(engine, threshold, patterns, folder_name)
    IN  IF body.exc THEN Returned(None) ELSE body

(***************************************************************************)
(* OCRScan._find_most_common_result.                                       *)
(***************************************************************************)
Count(seq, v) == Cardinality({k \in 1..Len(seq) : seq[k] = v})

FirstIndex(seq, v) == CHOOSE k \in 1..Len(seq) : seq[k] = v /\ \A j \in 1..(k - 1) : seq[j] # v

\* the keys of Counter(seq): the distinct values in order of first insertion
RECURSIVE CounterKeys(_)
CounterKeys(seq) ==
    IF seq = << >> THEN << >>
    ELSE LET front == CounterKeys(SubSeq(seq, 1, Len(seq) - 1))
             last  == seq[Len(seq)]
         IN  IF \E k \in 1..Len(front) : front[k] = last
             THEN front ELSE Append(front, last)

\* max(items, key=count): a later key replaces the best one only on a
\* strictly greater count
RECURSIVE MaxByCount(_, _, _, _)
MaxByCount(keys, seq, k, best) ==
    IF k > Len(keys) THEN best
    ELSE MaxByCount(keys, seq, k + 1,
                    IF Count(seq, keys[k]) > Count(seq, best)
                    THEN keys[k] ELSE best)

\* variant: on a tie the key inserted last wins
MostCommon_last(seq) ==
    LET keys == CounterKeys(seq)
        n    == Len(keys)
    IN  CHOOSE v \in {keys[k] : k \in 1..n} :
            \A k \in 1..n :
                \/ Count(seq, keys[k]) < Count(seq, v)
                \/ /\ Count(seq, keys[k]) = Count(seq, v)
                   /\ FirstIndex(seq, keys[k]) <= FirstIndex(seq, v)

\* Counter(seq).most_common(1)[0][0] for a non-empty seq
MostCommon(seq) ==
    LET keys == CounterKeys(seq)
    IN  MaxByCount(keys, seq, 2, keys[1])

\* variant: None and empty results are counted like codes
_find_most_common_result_nofilter(results) ==
    IF results = << >> THEN None
    ELSE IF Len(results) = 1 THEN results[1]
    ELSE MostCommon(results)

_find_most_common_result(results) ==
    IF results = << >> THEN None
    ELSE LET kept == SelectSeq(results, Truthy)
         IN  IF Len(kept) = 1 THEN kept[1]
             ELSE IF kept = << >> THEN None
             ELSE MostCommon(kept)

(***************************************************************************)
(* Tiling arithmetic of ocr_on_image.                                      *)
(***************************************************************************)
\* int(size * percentage / 100) for non-negative operands
PercentOf(size, percentage) == (size * percentage) \div 100

SectionSize(size, section_size_percentage) == PercentOf(size, section_size_percentage)

\* variant: the overlap is added to the section size instead of subtracted
ShiftSize_added(size, section_size_percentage, overlap_percentage) ==
    SectionSize(size, section_size_percentage) + PercentOf(size, overlap_percentage)

ShiftSize(size, section_size_percentage, overlap_percentage) ==
    SectionSize(size, section_size_percentage) - PercentOf(size, overlap_percentage)

\* len(range(0, stop, step)) for step # 0
RangeLen(stop, step) ==
    IF step > 0 /\ stop > 0 THEN (stop + step - 1) \div step ELSE 0

Min(a, b) == IF a <= b THEN a ELSE b

\* what entering the two for loops does: "raise" is range()'s ValueError
LoopEntry(image_width, image_height, shift_width, shift_height) ==
    IF shift_height = 0 THEN "raise"
    ELSE IF RangeLen(image_height, shift_height) = 0 THEN "empty"
    ELSE IF shift_width = 0 THEN "raise"
    ELSE IF RangeLen(image_width, shift_width) = 0 THEN "empty"
    ELSE "loop"

\* variant: right and bottom are not clamped to the image
Tile_unclamped(x, y, section_width, section_height, image_width, image_height) ==
    [x |-> x, y |-> y, right |-> x + section_width, bottom |-> y + section_height]

\* the crop box of the tile at (x, y)
Tile(x, y, section_width, section_height, image_width, image_height) ==
    [x |-> x, y |-> y,
     right |-> Min(x + section_width, image_width),
     bottom |-> Min(y + section_height, image_height)]

\* image.crop(box)
Crop(image, box) ==
    [image EXCEPT !.width = box.right - box.x, !.height = box.bottom - box.y]

(***************************************************************************)
(* Inputs: documents, configurations and engine behaviours.                *)
(***************************************************************************)
CodeA == <<"1", "2", "-", "3", "4", "5", "6", "7", "8", "-", "9", "0", "-", "1">>

CodeB == <<"1", "2", "-", "3", "4", "5", "6", "7", "8", "-", "9", "0", "-", "2">>

Marker == <<"_", "O", "C", "R", "-", "k", "o", "r", "r", "e", "k", "t">>

HollerithSuffix == <<"_", "H", "o", "l", "l", "e", "r", "i", "t", "h">>

Hollerith == <<"H", "o", "l", "l", "e", "r", "i", "t", "h">>

FileNames == {<<"S", "c", "a", "n">>, CodeA}

FolderNames == {<<"1", "2", "-", "3", "4", "_", "A">>, <<"1", "1", "_", "0", "0">>}

\* (section_size_percentage, overlap_percentage)
PercentPairs == {<<100, 67>>, <<100, 0>>, <<30, 70>>}

ConfidenceThresholds == {5}

LayoutRow == [block_num |-> 0, conf |-> -1, text |-> <<"n", "a", "n">>]

Token(block, conf, text) == [block_num |-> block, conf |-> conf, text |-> text]

EngineBehaviours ==
    { [fails |-> TRUE, rows |-> << >>],
      [fails |-> FALSE, rows |-> <<LayoutRow>>],
      [fails |-> FALSE, rows |-> <<LayoutRow, Token(1, 5, CodeA)>>],
      [fails |-> FALSE, rows |-> <<LayoutRow, Token(1, 4, CodeA)>>],
      [fails |-> FALSE, rows |-> <<LayoutRow, Token(1, 90, CodeB)>>] }

NoEngine == [fails |-> FALSE, rows |-> << >>]

(***************************************************************************)
(* State.                                                                  *)
(***************************************************************************)
VARIABLES
    source,            \* the image stored at image_path
    file_name,         \* basename of image_path without extension
    folder_name,       \* name of the directory that holds the image
    engines,           \* what the engine can return for a section of this image
    files,             \* names present in that directory
    section_size_percentage,
    overlap_percentage,
    confidence_threshold,
    run_again_with_enhanced_image,  \* parameter of the current call
    pass,              \* 1 for the outer call, 2 for the recursive call
    pc,                \* position of the calling thread in ocr_on_image
    image,             \* the image opened by the current call
    x, y,              \* the loop variables
    future_results,    \* futures in submission order
    results,           \* the list built from future.result()
    outcome,           \* value returned by the outer ocr_on_image
    md_file,           \* lines in OCR_Results.md, recorded where the workers' writes are followed
    md_file_closed,    \* "unopened", or the closed attribute of the report file object
    text_results,      \* argument of _postprocess in TrOCR/ocr.py
    text_index,        \* position of its loop in text_results
    filtered_text,     \* what that _postprocess returned
    regrouped,         \* the grouping statements applied to filtered_text
    fpc,               \* position in _postprocess of TrOCR/ocr.py
    image_paths,       \* argument of OCRThread.ocr: the .tif files, without extension
    doc,               \* index of the loop of OCRThread.ocr in image_paths
    _isRunning,        \* attribute written by OCRThread.stopProcessing
    thread_run_again,  \* OCRThread.run_again_with_enhanced_image
    bpc                \* position of the thread in OCRThread.ocr

format == <<text_results, text_index, filtered_text, regrouped, fpc>>

batch == <<image_paths, doc, _isRunning, thread_run_again, bpc>>

vars == <<source, file_name, folder_name, engines, files, section_size_percentage,
          overlap_percentage, confidence_threshold,
          run_again_with_enhanced_image, pass, pc, image, x, y,
          future_results, results, outcome, md_file, md_file_closed, format, batch>>

config == <<source, file_name, folder_name, engines, section_size_percentage,
            overlap_percentage, confidence_threshold>>

\* the report file of the current call
report == <<md_file, md_file_closed>>

NoImage == [kind |-> "none", mode |-> "none", width |-> 0, height |-> 0]

section_width == SectionSize(image.width, section_size_percentage)

section_height == SectionSize(image.height, section_size_percentage)

shift_width == ShiftSize(image.width, section_size_percentage, overlap_percentage)

shift_height == ShiftSize(image.height, section_size_percentage, overlap_percentage)

\* tiles one pass over a w x h image submits
TileCount(w, h, ssp, op) ==
    LET sw == ShiftSize(w, ssp, op)
        sh == ShiftSize(h, ssp, op)
    IN  IF LoopEntry(w, h, sw, sh) = "loop"
        THEN RangeLen(w, sw) * RangeLen(h, sh) ELSE 0

Start ==
    /\ pass = 1
    /\ pc = "call"
    /\ image = NoImage
    /\ x = 0 /\ y = 0
    /\ future_results = << >>
    /\ results = << >>
    /\ outcome = None
    /\ md_file = << >>
    /\ md_file_closed = "unopened"

\* _postprocess of TrOCR/ocr.py is not running
FormatIdle ==
    /\ text_results = << >>
    /\ text_index = 1
    /\ filtered_text = None
    /\ regrouped = None
    /\ fpc = "idle"

\* no OCRThread is running
BatchIdle ==
    /\ image_paths = << >>
    /\ doc = 1
    /\ _isRunning = << >>
    /\ thread_run_again = TRUE
    /\ bpc = "idle"

Init ==
    /\ \E w \in 1..MaxDim, h \in 1..MaxDim :
          source = [kind |-> "original", mode |-> "RGB", width |-> w, height |-> h]
    /\ \E pp \in PercentPairs :
          section_size_percentage = pp[1] /\ overlap_percentage = pp[2]
    /\ TileCount(source.width, source.height,
                 section_size_percentage, overlap_percentage) <= MaxTiles
    /\ file_name \in FileNames
    /\ folder_name \in FolderNames
    /\ engines = EngineBehaviours
    /\ files = {file_name \o Ext}
    /\ confidence_threshold \in ConfidenceThresholds
    /\ run_again_with_enhanced_image \in BOOLEAN
    /\ Start
    /\ FormatIdle /\ BatchIdle

(***************************************************************************)
(* ocr_on_image, the calling thread.                                       *)
(***************************************************************************)
\* the early return of the guard: the name matches and carries no marker
ShortCircuits(name) ==
    _is_file_in_desired_format(name, PATTERNS) /\ ~Contains(name, Marker)

AlreadyInFormat ==
    /\ pc = "call"
    /\ ShortCircuits(file_name)
    /\ LET target == file_name \o HollerithSuffix \o Ext
       IN  files' = IF ~Contains(file_name, Hollerith) /\ target \notin files
                    THEN (files \ {file_name \o Ext}) \cup {target}
                    ELSE files
    /\ outcome' = None
    /\ pc' = "done"
    /\ UNCHANGED <<config, format, batch, report, run_again_with_enhanced_image, pass, image, x, y,
                   future_results, results>>

StartOcr ==
    /\ pc = "call"
    /\ ~ShortCircuits(file_name)
    /\ pc' = "open"
    /\ UNCHANGED <<config, format, batch, report, files, run_again_with_enhanced_image, pass, image,
                   x, y, future_results, results, outcome>>

\* Image.open(image_path)
OpenedImage(stored) == stored

\* Image.open raises on a file that is not an image
Unreadable(stored) == stored.kind = "unreadable"

OpenImage ==
    /\ pc = "open"
    /\ image' = IF Unreadable(source) THEN NoImage ELSE OpenedImage(source)
    /\ LET w == image'.width
           h == image'.height
           entry == LoopEntry(w, h,
                       ShiftSize(w, section_size_percentage, overlap_percentage),
                       ShiftSize(h, section_size_percentage, overlap_percentage))
       IN  pc' = CASE Unreadable(source) -> "unwind"
                   [] entry = "raise" -> "unwind"
                   [] entry = "empty" -> "collect"
                   [] entry = "loop" -> "submit"
    /\ x' = 0 /\ y' = 0
    /\ md_file' = << >>  \* open(md_file_path, "w")
    /\ md_file_closed' = "open"
    /\ UNCHANGED <<config, format, batch, files, run_again_with_enhanced_image, pass,
                   future_results, results, outcome>>

NewFuture(box, section) ==
    [state |-> "pending", tile |-> box, section |-> section,
     engine |-> NoEngine, outcome |-> Returned(None)]

\* variant: x is the outer loop and y the inner one
Submit_columns ==
    /\ pc = "submit"
    /\ LET box == Tile(x, y, section_width, section_height, image.width, image.height)
       IN  future_results' = Append(future_results, NewFuture(box, Crop(image, box)))
    /\ IF y + shift_height < image.height
       THEN /\ y' = y + shift_height /\ x' = x /\ pc' = pc
       ELSE IF x + shift_width < image.width
       THEN /\ y' = 0 /\ x' = x + shift_width /\ pc' = pc
       ELSE /\ x' = x /\ y' = y /\ pc' = "collect"
    /\ UNCHANGED <<config, format, batch, report, files, run_again_with_enhanced_image, pass, image,
                   results, outcome>>

\* one iteration of the inner loop: crop, submit, append the future
Submit ==
    /\ pc = "submit"
    /\ LET box == Tile(x, y, section_width, section_height, image.width, image.height)
       IN  future_results' = Append(future_results, NewFuture(box, Crop(image, box)))
    /\ IF x + shift_width < image.width
       THEN /\ x' = x + shift_width /\ y' = y /\ pc' = pc
       ELSE IF y + shift_height < image.height
       THEN /\ x' = 0 /\ y' = y + shift_height /\ pc' = pc
       ELSE /\ x' = x /\ y' = y /\ pc' = "collect"
    /\ UNCHANGED <<config, format, batch, report, files, run_again_with_enhanced_image, pass, image,
                   results, outcome>>

(***************************************************************************)
(* The executor's threads.                                                 *)
(***************************************************************************)
\* the futures that hold a thread of the pool
Running ==
    {k \in 1..Len(future_results) :
        future_results[k].state \in {"running", "reporting", "hung"}}

AllFinished == \A k \in 1..Len(future_results) : future_results[k].state = "finished"

\* a free thread takes the oldest queued work item
WorkerStart(k) ==
    /\ future_results[k].state = "pending"
    /\ \A j \in 1..(k - 1) : future_results[j].state # "pending"
    /\ Cardinality(Running) < MaxWorkers
    /\ future_results' = [future_results EXCEPT ![k].state = "running"]
    /\ UNCHANGED <<config, format, batch, report, files, run_again_with_enhanced_image, pass, pc,
                   image, x, y, results, outcome>>

\* variant: a code already returned for another tile is not returned again
WorkerFinish_once(k) ==
    /\ future_results[k].state = "running"
    /\ \E engine \in engines :
          LET returned == _ocr_on_section(engine, confidence_threshold,
                                          PATTERNS, folder_name)
              seen == {future_results[j].outcome.value :
                          j \in {i \in 1..Len(future_results) :
                                    future_results[i].state = "finished"}}
          IN  future_results' = [future_results EXCEPT
                  ![k].state = "finished",
                  ![k].engine = engine,
                  ![k].outcome = IF returned.value \in seen
                                 THEN Returned(None) ELSE returned]
    /\ UNCHANGED <<config, format, batch, report, files, run_again_with_enhanced_image, pass, pc,
                   image, x, y, results, outcome>>

\* _ocr_on_section runs to its end on whatever the engine does; the lines
\* it writes to md_file are followed by SectionOcr and SectionReport
WorkerFinish(k) ==
    /\ future_results[k].state = "running"
    /\ \E engine \in engines :
          future_results' = [future_results EXCEPT
              ![k].state = "finished",
              ![k].engine = engine,
              ![k].outcome = _ocr_on_section(engine, confidence_threshold,
                                             PATTERNS, folder_name)]
    /\ UNCHANGED <<config, format, batch, report, files, run_again_with_enhanced_image, pass, pc,
                   image, x, y, results, outcome>>

(***************************************************************************)
(* Collecting, aggregating, running again.                                 *)
(***************************************************************************)
\* variant: the result is read without waiting for the future
ResultReady_nowait(future) == TRUE

\* future.result() returns (or raises) once the future is done
ResultReady(future) == future.state = "finished"

\* variant: the futures are read from the last submitted to the first
CollectIndex_reversed(k) == Len(future_results) + 1 - k

\* which future the k-th step of the list comprehension reads
CollectIndex(k) == k

CollectResult ==
    /\ pc = "collect"
    /\ Len(results) < Len(future_results)
    /\ LET future == future_results[CollectIndex(Len(results) + 1)]
       IN  /\ ResultReady(future)
           /\ IF future.outcome.exc
              THEN pc' = "unwind" /\ results' = results
              ELSE pc' = pc /\ results' = Append(results, future.outcome.value)
    /\ UNCHANGED <<config, format, batch, report, files, run_again_with_enhanced_image, pass, image,
                   x, y, future_results, outcome>>

\* end of the with block (shutdown waits for the threads), md_file.close()
LeavePool ==
    /\ pc = "collect"
    /\ Len(results) = Len(future_results)
    /\ AllFinished
    /\ pc' = "aggregate"
    /\ md_file_closed' = "closed"
    /\ UNCHANGED <<config, format, batch, md_file, files, run_again_with_enhanced_image, pass, image,
                   x, y, future_results, results, outcome>>

\* what becomes of a file object that goes out of scope without close():
\* reference counting closes it when the frame is released, another
\* collector later or not at all
Finalized(closed) == {closed, "closed"}

\* an exception inside the with block: wait for the threads, then the handler;
\* md_file.close() is not on this path
HandleException ==
    /\ pc = "unwind"
    /\ AllFinished
    /\ outcome' = None
    /\ pc' = "done"
    /\ md_file_closed' \in Finalized(md_file_closed)
    /\ UNCHANGED <<config, format, batch, md_file, files, run_again_with_enhanced_image, pass, image,
                   x, y, future_results, results>>

\* variant: the second run does not depend on the first result
ShouldRunAgain_always(aggregated, run_again) == run_again

ShouldRunAgain(aggregated, run_again) == ~Truthy(aggregated) /\ run_again

\* variant: the recursive call keeps the caller's flag
RecursiveFlag_kept(run_again) == run_again

\* run_again_with_enhanced_image of the recursive call
RecursiveFlag(run_again) == FALSE

RunAgain ==
    /\ pc = "aggregate"
    /\ ShouldRunAgain(_find_most_common_result(results), run_again_with_enhanced_image)
    /\ pass < MaxPasses
    /\ pass' = pass + 1
    /\ run_again_with_enhanced_image' = RecursiveFlag(run_again_with_enhanced_image)
    /\ pc' = "call"
    /\ image' = NoImage
    /\ x' = 0 /\ y' = 0
    /\ future_results' = << >>
    /\ results' = << >>
    /\ UNCHANGED <<config, format, batch, report, files, outcome>>

ReturnResult ==
    /\ pc = "aggregate"
    /\ ~ShouldRunAgain(_find_most_common_result(results), run_again_with_enhanced_image)
    /\ outcome' = _find_most_common_result(results)
    /\ pc' = "done"
    /\ UNCHANGED <<config, format, batch, report, files, run_again_with_enhanced_image, pass, image,
                   x, y, future_results, results>>

Next ==
    \/ AlreadyInFormat
    \/ StartOcr
    \/ OpenImage
    \/ Submit
    \/ \E k \in 1..Len(future_results) : WorkerStart(k)
    \/ \E k \in 1..Len(future_results) : WorkerFinish(k)
    \/ CollectResult
    \/ LeavePool
    \/ HandleException
    \/ RunAgain
    \/ ReturnResult

Spec == Init /\ [][Next]_vars

TypeOK ==
    /\ pc \in {"call", "open", "submit", "collect", "unwind", "aggregate", "done"}
    /\ pass \in 1..MaxPasses
    /\ Len(results) <= Len(future_results)

(***************************************************************************)
(* The planning loops on their own: every image size up to MaxPlanDim and  *)
(* a grid of percentages, with the executor's threads not yet scheduled.   *)
(***************************************************************************)
SectionPercents == {10, 20, 30, 40, 50, 60, 67, 70, 80, 90, 100}

OverlapPercents == {0, 10, 20, 30, 34, 40, 50, 60, 70, 80, 90}

PlanInit ==
    /\ \E w \in 1..MaxPlanDim, h \in 1..MaxPlanDim :
          source = [kind |-> "original", mode |-> "RGB", width |-> w, height |-> h]
    /\ section_size_percentage \in SectionPercents
    /\ overlap_percentage \in OverlapPercents
    /\ file_name = <<"S", "c", "a", "n">>
    /\ folder_name = <<"1", "2", "-", "3", "4", "_", "A">>
    /\ engines = EngineBehaviours
    /\ files = {file_name \o Ext}
    /\ confidence_threshold = 5
    /\ run_again_with_enhanced_image = TRUE
    /\ Start
    /\ FormatIdle /\ BatchIdle

PlanNext ==
    \/ StartOcr
    \/ OpenImage
    \/ Submit
    \/ HandleException

PlanSpec == PlanInit /\ [][PlanNext]_vars

\* the loops of the current pass have run to their end
Planned == pc \in {"collect", "aggregate"}

Boxes == {future_results[k].tile : k \in 1..Len(future_results)}

InBox(px, py, box) ==
    box.x <= px /\ px < box.right /\ box.y <= py /\ py < box.bottom

\* C7: when both shifts are positive, every pixel of the image lies inside
\* at least one tile of the finished plan.
C7_TilesCoverImage ==
    (Planned /\ shift_width > 0 /\ shift_height > 0) =>
        \A px \in 0..(image.width - 1), py \in 0..(image.height - 1) :
            \E box \in Boxes : InBox(px, py, box)

\* a finished plan of several rows and columns whose last column is narrower
C7_Witness ==
    /\ Planned /\ shift_width > 0 /\ shift_height > 0
    /\ Len(future_results) >= 6
    /\ \E box \in Boxes : box.x > 0 /\ box.y > 0
                          /\ box.right - box.x < section_width

\* C8: every tile starts inside the image, ends at min(origin + section size,
\* image size), is not empty and is never larger than the section size; the
\* cropped section has the size of its box.
C8_TilesWithinImage ==
    \A k \in 1..Len(future_results) :
        LET box == future_results[k].tile
            section == future_results[k].section
        IN  /\ 0 <= box.x /\ box.x < image.width
            /\ 0 <= box.y /\ box.y < image.height
            /\ box.right = (IF box.x + section_width <= image.width
                            THEN box.x + section_width ELSE image.width)
            /\ box.bottom = (IF box.y + section_height <= image.height
                             THEN box.y + section_height ELSE image.height)
            /\ box.x < box.right /\ box.right <= image.width
            /\ box.y < box.bottom /\ box.bottom <= image.height
            /\ section.width = box.right - box.x /\ section.width <= section_width
            /\ section.height = box.bottom - box.y /\ section.height <= section_height

\* a plan holding an interior tile of full size and a clamped edge tile
C8_Witness ==
    /\ Planned
    /\ \E a \in Boxes : a.right - a.x = section_width /\ a.bottom - a.y = section_height
    /\ \E b \in Boxes : /\ b.right = image.width /\ b.right - b.x < section_width
                        /\ b.bottom = image.height /\ b.bottom - b.y < section_height

\* C9 as claimed: with a shift <= 0 (in particular overlap_percentage >=
\* section_size_percentage) planning ends in the error path and never
\* completes a plan, empty or not.
C9_NonPositiveShiftRejected ==
    (image # NoImage /\ (shift_width <= 0 \/ shift_height <= 0)) =>
        /\ ~Planned
        /\ (pc = "done" => outcome = None)

(***************************************************************************)
(* Properties of the whole run.                                            *)
(***************************************************************************)
\* the scheduler runs every thread that can take a step, and engine calls return
FairSpec == Spec /\ WF_vars(Next)

SomeCandidate == \E k \in 1..Len(results) : Truthy(results[k])

\* C1: a run makes at most two passes, a second pass that aggregates to
\* nothing returns None at once, and the run reaches its final outcome.
C1_AtMostTwoPasses ==
    /\ [](pass <= 2)
    /\ [][(pc = "aggregate" /\ pass = 2 /\ ~SomeCandidate)
            => (pc' = "done" /\ outcome' = None /\ pass' = 2)]_vars
    /\ <>(pc = "done")

\* two full passes over four tiles each, both without a candidate
C1_Witness ==
    /\ pc = "done" /\ pass = 2 /\ outcome = None
    /\ Len(results) = 4 /\ Len(future_results) = 4

\* C2: a second pass starts only from a first aggregation without any
\* candidate; a first aggregation with a candidate returns that code and
\* ends the run in pass 1.
C2_SecondPassOnlyAfterNoMatch ==
    [][ /\ (pass' # pass) => (pc = "aggregate" /\ pass = 1 /\ ~SomeCandidate)
        /\ (pc = "aggregate" /\ pass = 1 /\ SomeCandidate)
              => /\ pc' = "done" /\ pass' = 1
                 /\ Truthy(outcome')
                 /\ \E k \in 1..Len(results) : results[k] = outcome' ]_vars

\* escalation was allowed, the first pass found a code, the run ended there
C2_Witness ==
    /\ pc = "done" /\ pass = 1 /\ run_again_with_enhanced_image
    /\ Truthy(outcome) /\ Len(results) >= 2

\* C3 as claimed: in the second pass the opened image is the enhancement of
\* the stored one (twice its width and height), and every section cut and
\* handed to the engine comes from it.
C3_SecondPassOnEnhancedImage ==
    (pass = 2 /\ image # NoImage) =>
        /\ image.kind = "enhanced"
        /\ image.width = UpscaleFactor * source.width
        /\ image.height = UpscaleFactor * source.height
        /\ \A k \in 1..Len(future_results) :
              EngineInput(future_results[k].section).kind = "enhanced"

\* C4: results only ever holds values of finished futures, and aggregation
\* starts with every future finished and one result per planned tile.
C4_JoinBarrier ==
    /\ \A k \in 1..Len(results) : future_results[k].state = "finished"
    /\ (pc = "aggregate") =>
          /\ AllFinished
          /\ Len(results) = Len(future_results)
          /\ Len(results) = TileCount(image.width, image.height,
                                      section_size_percentage, overlap_percentage)

\* aggregation is about to start on the four tiles of a 2 x 2 plan
C4_Witness ==
    pc = "aggregate" /\ Len(results) = 4 /\ SomeCandidate

RowMajorBefore(a, b) == a.y < b.y \/ (a.y = b.y /\ a.x < b.x)

\* C5: the futures are in row-major tile order and results[k] is the value
\* of the k-th submitted tile, whatever order the threads finished in.
C5_ResultsInPlanOrder ==
    /\ \A j, k \in 1..Len(future_results) :
          j < k => RowMajorBefore(future_results[j].tile, future_results[k].tile)
    /\ \A k \in 1..Len(results) : results[k] = future_results[k].outcome.value

\* tile 3 finished before tile 2 while the results are being collected
C5_Witness ==
    /\ pc = "collect" /\ results = <<CodeA>> /\ Len(future_results) = 4
    /\ future_results[2].state = "running"
    /\ future_results[3].state = "finished"
    /\ future_results[3].outcome.value = CodeB

\* C6: a tile whose engine call failed ends with the value None and without
\* an exception; no future holds an exception, the caller never unwinds
\* because of a tile, and the other tiles' values reach aggregation.
C6_EngineFailureIsLocal ==
    /\ \A k \in 1..Len(future_results) :
          LET f == future_results[k]
          IN  f.state = "finished" =>
                 /\ ~f.outcome.exc
                 /\ f.engine.fails => f.outcome.value = None
    /\ (pc = "unwind") => future_results = << >>
    /\ (pc = "aggregate") =>
          /\ Len(results) = Len(future_results)
          /\ \A k \in 1..Len(results) :
                results[k] = (IF future_results[k].engine.fails THEN None
                              ELSE future_results[k].outcome.value)

\* one engine failure among four tiles, another tile's code is aggregated
C6_Witness ==
    /\ pc = "aggregate" /\ Len(results) = 4
    /\ \E k \in 1..4 : future_results[k].engine.fails
    /\ \E k \in 1..4 : ~future_results[k].engine.fails /\ results[k] = CodeA

Tokens(engine) == SelectSeq(engine.rows, IsToken)

TokenCount(engine) == Len(Tokens(engine))

TokenSum(engine) == SumConf(Tokens(engine))

\* the engine returned something and its mean confidence is below the threshold
LowConfidence(engine) ==
    /\ ~engine.fails
    /\ TokenSum(engine) < confidence_threshold * TokenCount(engine)
       \/ (TokenCount(engine) = 0 /\ 0 < confidence_threshold)

AtThreshold(engine) ==
    /\ ~engine.fails /\ TokenCount(engine) > 0
    /\ TokenSum(engine) = confidence_threshold * TokenCount(engine)

C10_AtThresholdReached ==
    /\ pc = "done" /\ outcome = CodeA
    /\ \A k \in 1..Len(future_results) :
          future_results[k].outcome.value = CodeA => AtThreshold(future_results[k].engine)

C11_TieSecondCodeFirst ==
    /\ pc = "done" /\ results = <<CodeB, CodeA, CodeA, CodeB>> /\ outcome = CodeB

\* the tile's candidate passed every filter of _ocr_on_section
Survives(k) == Truthy(future_results[k].outcome.value)

\* C12: a finished call returns a code exactly when some tile candidate of
\* its last pass survived the filters (engine result present, confidence not
\* below the threshold, pattern and folder check), and returns None exactly
\* when none did, an empty tile sequence included.
C12_SuccessIffSomeSurvivor ==
    (pc = "done") =>
        /\ Truthy(outcome) <=> \E k \in 1..Len(future_results) : Survives(k)
        /\ \A k \in 1..Len(future_results) :
              Survives(k) => /\ ~future_results[k].engine.fails
                             /\ ~LowConfidence(future_results[k].engine)
        /\ future_results = << >> => outcome = None

\* one survivor among four tiles, the other three are None for three
\* different reasons: engine failure, low confidence, no token at all
C12_Witness ==
    /\ pc = "done" /\ outcome = CodeB /\ Len(future_results) = 4
    /\ Cardinality({k \in 1..4 : Survives(k)}) = 1
    /\ \E k \in 1..4 : future_results[k].engine.fails
    /\ \E k \in 1..4 : LowConfidence(future_results[k].engine)
                       /\ TokenCount(future_results[k].engine) > 0
    /\ \E k \in 1..4 : ~future_results[k].engine.fails
                       /\ TokenCount(future_results[k].engine) = 0

\* a call whose loops planned no tile returns None
C12_EmptyPlanNoMatch ==
    /\ pc = "done" /\ image # NoImage /\ future_results = << >>
    /\ shift_width # 0 /\ shift_height # 0 /\ outcome = None

(***************************************************************************)
(* Documents of at most MaxDocTiles tiles in a row, with a wider choice of *)
(* file names, folder names and recognized texts.                          *)
(***************************************************************************)
MaxDocTiles == 2

\* a grouped code that does not hold the starting numbers 12-34
CodeC == <<"9", "9", "-", "3", "4", "5", "6", "7", "8", "-", "9", "0", "-", "1">>

\* a match of the first pattern only
WordCode == <<"1", "2", "-", "3", "4", "5", "6", "7", "8", "9", "0", "1", "2">>

PipeText == <<"1", "2", "-", "3", "4", "5", "6", "7", "8", "|", "9", "0", "|", "1">>

DocFileNames == {<<"S", "c", "a", "n">>, CodeA, CodeA \o Marker}

DocFolderNames ==
    { <<"1", "2", "-", "3", "4", "_", "A">>,
      <<"9", "9", "-", "3", "4", "_", "B">>,
      <<"1", "1", "_", "0", "0">> }

DocPercentPairs == {<<100, 67>>, <<30, 70>>}

DocBehaviours ==
    { [fails |-> FALSE, rows |-> <<LayoutRow, Token(1, 90, CodeA)>>],
      [fails |-> FALSE, rows |-> <<LayoutRow, Token(1, 90, CodeC)>>],
      [fails |-> FALSE, rows |-> <<LayoutRow, Token(1, 90, CodeA), Token(1, 90, WordCode)>>],
      [fails |-> FALSE, rows |-> <<LayoutRow, Token(1, 90, PipeText)>>],
      [fails |-> FALSE, rows |-> <<LayoutRow, Token(1, 90, << >>)>>] }

DocInit ==
    /\ \E w \in 1..MaxDocTiles :
          source = [kind |-> "original", mode |-> "RGB", width |-> w, height |-> 1]
    /\ \E pp \in DocPercentPairs :
          section_size_percentage = pp[1] /\ overlap_percentage = pp[2]
    /\ TileCount(source.width, source.height,
                 section_size_percentage, overlap_percentage) <= MaxDocTiles
    /\ file_name \in DocFileNames
    /\ folder_name \in DocFolderNames
    /\ engines = DocBehaviours
    /\ files = {file_name \o Ext}
    /\ confidence_threshold \in ConfidenceThresholds
    /\ run_again_with_enhanced_image \in BOOLEAN
    /\ Start
    /\ FormatIdle /\ BatchIdle

DocSpec == DocInit /\ [][Next]_vars

\* the section text the engine's rows give
TileText(engine) == SectionText(_ocr_image(engine).lines)

\* the engine returned and the tile passed the confidence filter
Considered(k) ==
    /\ future_results[k].state = "finished"
    /\ ~future_results[k].engine.fails
    /\ ~LowConfidence(future_results[k].engine)

HasPrefix == \E i \in 1..Len(folder_name) : MatchEndFolder(folder_name, i) # 0

\* the first match of \d{2}-\d{2} in the folder name
ExpectedPrefix ==
    LET i == CHOOSE i \in 1..Len(folder_name) :
                 /\ MatchEndFolder(folder_name, i) # 0
                 /\ \A j \in 1..(i - 1) : MatchEndFolder(folder_name, j) = 0
    IN  SubSeq(folder_name, i, i + 4)

\* C13: when the folder name holds a match of \d{2}-\d{2}, a tile whose
\* text holds no code with that prefix as a substring contributes None, so
\* every collected candidate and the returned code contain the prefix.
C13_PrefixFilter ==
    HasPrefix =>
        /\ \A k \in 1..Len(future_results) :
              LET f == future_results[k]
              IN  f.state = "finished" =>
                     /\ Truthy(f.outcome.value) =>
                           Contains(f.outcome.value, ExpectedPrefix)
                     /\ ~Contains(TileText(f.engine), ExpectedPrefix) =>
                           f.outcome.value = None
        /\ \A k \in 1..Len(results) :
              Truthy(results[k]) => Contains(results[k], ExpectedPrefix)
        /\ (pc = "done" /\ Truthy(outcome)) => Contains(outcome, ExpectedPrefix)

\* in folder 12-34_A the first tile reads 99-345678-90-1 and is discarded,
\* the second reads 12-345678-90-1, which is returned
C13_Witness ==
    /\ pc = "done" /\ HasPrefix /\ Len(future_results) = 2
    /\ Considered(1) /\ TileText(future_results[1].engine) = CodeC
    /\ future_results[1].outcome.value = None
    /\ results = <<None, CodeA>> /\ outcome = CodeA

HasMatch(pattern, t) == \E i \in 1..Len(t) : MatchEnd(pattern, t, i) # 0

\* the leftmost match of pattern in t
FirstOccurrence(pattern, t) ==
    LET i == CHOOSE i \in 1..Len(t) :
                 /\ MatchEnd(pattern, t, i) # 0
                 /\ \A j \in 1..(i - 1) : MatchEnd(pattern, t, j) = 0
    IN  SubSeq(t, i, MatchEnd(pattern, t, i) - 1)

\* the first pattern in priority order that matches anywhere decides
PriorityCandidate(t, patterns) ==
    IF \A k \in 1..Len(patterns) : ~HasMatch(patterns[k], t) THEN None
    ELSE LET k == CHOOSE k \in 1..Len(patterns) :
                      /\ HasMatch(patterns[k], t)
                      /\ \A j \in 1..(k - 1) : ~HasMatch(patterns[j], t)
         IN  FirstOccurrence(patterns[k], t)

\* C14 as claimed: when the folder name holds no match of \d{2}-\d{2}, a
\* tile that passed the confidence filter and whose text matches a pattern
\* keeps its candidate, and a finished call with such a tile returns a code.
C14_NoPrefixKeepsCandidates ==
    ~HasPrefix =>
        /\ \A k \in 1..Len(future_results) :
              (Considered(k) /\ Truthy(PriorityCandidate(TileText(future_results[k].engine), PATTERNS)))
                  => Truthy(future_results[k].outcome.value)
        /\ (pc = "done" /\ \E k \in 1..Len(future_results) :
                              /\ Considered(k)
                              /\ Truthy(PriorityCandidate(TileText(future_results[k].engine), PATTERNS)))
              => Truthy(outcome)

\* C15: the value of a tile that passed the confidence filter is the folder
\* check applied to the first occurrence in its text of the first pattern,
\* in priority order, that matches anywhere in the text, and to None when
\* no pattern matches.
C15_FirstPatternFirstOccurrence ==
    \A k \in 1..Len(future_results) :
        Considered(k) =>
            future_results[k].outcome.value =
                _check_folder_name(
                    PriorityCandidate(TileText(future_results[k].engine), PATTERNS),
                    folder_name)

\* the text "12-345678-90-1 12-3456789012": the second pattern matches at
\* the start, the first pattern later; the first pattern's match is returned
C15_Witness ==
    /\ pc = "done" /\ Len(future_results) = 1 /\ Considered(1)
    /\ TileText(future_results[1].engine) = CodeA \o Space \o WordCode
    /\ MatchEnd(PATTERNS[2], TileText(future_results[1].engine), 1) # 0
    /\ MatchEnd(PATTERNS[1], TileText(future_results[1].engine), 1) = 0
    /\ outcome = WordCode

\* a text that matches the second pattern only is returned as that match
C15_SecondPatternOnly ==
    /\ pc = "done" /\ Len(future_results) = 1 /\ Considered(1)
    /\ ~HasMatch(PATTERNS[1], TileText(future_results[1].engine))
    /\ outcome = CodeA

\* C16 as claimed: a finished call on two tiles that passed the confidence
\* filter, the first reading "12-345678|90|1" and the second reading
\* nothing, returns "12-345678-90-1".
C16_ConfusablesNormalized ==
    ( /\ pc = "done" /\ Len(future_results) = 2
      /\ Considered(1) /\ Considered(2)
      /\ TileText(future_results[1].engine) = PipeText
      /\ TileText(future_results[2].engine) = << >>
      /\ HasPrefix /\ Contains(CodeA, ExpectedPrefix) )
        => outcome = CodeA

\* C19 as claimed: a call whose file name matches one of the patterns ends
\* without opening the image and without submitting any tile.
C19_GuardShortCircuits ==
    _is_file_in_desired_format(file_name, PATTERNS) =>
        /\ pc \in {"call", "done"}
        /\ image = NoImage
        /\ future_results = << >>

(***************************************************************************)
(* OCRScan._postprocess of TrOCR/ocr.py: the loop over text_results and    *)
(* the grouping statements, applied to bounded lists of texts.             *)
(***************************************************************************)
MaxTexts == 2

\* s.replace("-", "")
RECURSIVE StripSeparators(_)
StripSeparators(s) ==
    IF s = << >> THEN << >>
    ELSE (IF Head(s) = "-" THEN << >> ELSE <<Head(s)>>) \o StripSeparators(Tail(s))

\* the slice s[i:j] for 0 <= i <= j
Slice(s, i, j) == SubSeq(s, i + 1, Min(j, Len(s)))

\* variant: the separators are not removed before the slices are taken
Grouping_nostrip(text) ==
    Slice(text, 0, 2) \o <<"-">> \o Slice(text, 2, 8) \o <<"-">>
        \o Slice(text, 8, 10) \o <<"-">> \o Slice(text, 10, Len(text))

\* the statements under `if filtered_text and len(filtered_text) == 13`
Grouping(text) ==
    LET stripped == StripSeparators(text)
    IN  Slice(stripped, 0, 2) \o <<"-">> \o Slice(stripped, 2, 8) \o <<"-">>
            \o Slice(stripped, 8, 10) \o <<"-">> \o Slice(stripped, 10, Len(stripped))

\* len(filtered_text) == 13, measured before the separators are removed
GroupingApplies(text) == Truthy(text) /\ Len(text) = 13

\* a grouped code of 13 characters
ShortGrouped == <<"1", "2", "-", "3", "4", "5", "6", "7", "-", "8", "9", "-", "0">>

\* a grouped code of 13 characters without its separators
LongGrouped ==
    <<"1", "2", "-", "3", "4", "5", "6", "7", "8", "9", "0", "-", "1", "2", "-", "3">>

FormatTexts == {CodeA, WordCode, ShortGrouped, LongGrouped, PipeText, None}

\* iterating a str yields its characters
Chars(s) == [k \in 1..Len(s) |-> <<s[k]>>]

FormatInputs ==
    UNION {[1..n -> FormatTexts] : n \in 0..MaxTexts} \cup {Chars(WordCode)}

FormatInit ==
    /\ source = [kind |-> "original", mode |-> "RGB", width |-> 1, height |-> 1]
    /\ section_size_percentage = 70 /\ overlap_percentage = 30
    /\ file_name = <<"S", "c", "a", "n">>
    /\ folder_name = <<"1", "2", "-", "3", "4", "_", "A">>
    /\ engines = {}
    /\ files = {file_name \o Ext}
    /\ confidence_threshold = 5
    /\ run_again_with_enhanced_image = TRUE
    /\ Start
    /\ BatchIdle
    /\ text_results \in FormatInputs
    /\ text_index = 1
    /\ filtered_text = None
    /\ regrouped = None
    /\ fpc = "loop"

ocr == <<source, file_name, folder_name, engines, files, section_size_percentage,
         overlap_percentage, confidence_threshold,
         run_again_with_enhanced_image, pass, pc, image, x, y,
         future_results, results, outcome, md_file, md_file_closed>>

\* one iteration of `for text in text_results`
FormatText ==
    /\ fpc = "loop"
    /\ text_index <= Len(text_results)
    /\ LET text == text_results[text_index]
       IN  IF text = None
           THEN \* re.findall raises TypeError, the handler returns None
                /\ filtered_text' = None
                /\ fpc' = "returned"
                /\ UNCHANGED text_index
           ELSE IF GroupingApplies(FilteredText(text, PATTERNS))
           THEN /\ filtered_text' = Grouping(FilteredText(text, PATTERNS))
                /\ fpc' = "returned"
                /\ UNCHANGED text_index
           ELSE /\ text_index' = text_index + 1
                /\ UNCHANGED <<filtered_text, fpc>>
    /\ UNCHANGED <<ocr, batch, text_results, regrouped>>

\* the loop has run out of texts
FormatNoMatch ==
    /\ fpc = "loop"
    /\ text_index > Len(text_results)
    /\ filtered_text' = None
    /\ fpc' = "returned"
    /\ UNCHANGED <<ocr, batch, text_results, text_index, regrouped>>

\* the grouping statements applied to a returned code
GroupAgain ==
    /\ fpc = "returned"
    /\ Truthy(filtered_text)
    /\ regrouped' = Grouping(filtered_text)
    /\ fpc' = "regrouped"
    /\ UNCHANGED <<ocr, batch, text_results, text_index, filtered_text>>

FormatNext == FormatText \/ FormatNoMatch \/ GroupAgain

FormatSpec == FormatInit /\ [][FormatNext]_vars

\* C17 as claimed: for a single text that holds a code, a code of 13
\* characters without its separators is returned regrouped at the fixed
\* offsets, and a code of any other length is returned as it is.
C17_FormatNormalization ==
    ( /\ fpc = "returned" /\ Len(text_results) = 1 /\ text_results[1] # None
      /\ Truthy(PriorityCandidate(text_results[1], PATTERNS)) )
        => LET raw == PriorityCandidate(text_results[1], PATTERNS)
           IN  filtered_text = (IF Len(StripSeparators(raw)) = 13
                                THEN Grouping(raw) ELSE raw)

C18_EmptyLastGroup ==
    /\ fpc = "regrouped"
    /\ filtered_text = <<"1", "2", "-", "3", "4", "5", "6", "7", "8", "-", "9", "0", "-">>

(***************************************************************************)
(* OCRThread.ocr of ocrApp.py: the loop over the .tif files of a           *)
(* directory, each handed to ocr_on_image and renamed after its result.    *)
(***************************************************************************)
FehlerPrefix == <<"F", "e", "h", "l", "e", "r", "_">>

DigitChars == <<"0", "1", "2", "3", "4", "5", "6", "7", "8", "9">>

\* str(n) for n >= 0
RECURSIVE Str(_)
Str(n) ==
    IF n < 10 THEN <<DigitChars[n + 1]>>
    ELSE Str(n \div 10) \o <<DigitChars[(n % 10) + 1]>>

\* index of the last "." of a name, 0 when the extension is empty
LastDot(name) ==
    LET dots == {i \in 2..Len(name) : name[i] = "."}
    IN  IF dots = {} THEN 0 ELSE CHOOSE i \in dots : \A j \in dots : j <= i

\* os.path.splitext
SplitExt(name) ==
    IF LastDot(name) = 0 THEN <<name, << >> >>
    ELSE <<SubSeq(name, 1, LastDot(name) - 1), SubSeq(name, LastDot(name), Len(name))>>

\* the while loop of get_unique_filename
RECURSIVE UniqueFrom(_, _, _, _, _)
UniqueFrom(base, ext, counter, target_path, existing) ==
    IF target_path \notin existing THEN target_path
    ELSE UniqueFrom(base, ext, counter + 1,
                    base \o <<"_">> \o Str(counter) \o ext, existing)

\* variant: the target is used whether it exists or not
get_unique_filename_asis(target_path, existing) == target_path

get_unique_filename(target_path, existing) ==
    UniqueFrom(SplitExt(target_path)[1], SplitExt(target_path)[2], 1,
               target_path, existing)

\* os.rename(src, dst): [ok, files]; a missing src raises FileNotFoundError
Rename(existing, src, dst) ==
    IF src \in existing
    THEN [ok |-> TRUE, files |-> (existing \ {src}) \cup {dst}]
    ELSE [ok |-> FALSE, files |-> existing]

\* `self.isRunning` names the bound method QThread.isRunning and does not
\* call it: the object is truthy whatever the thread's state
isRunning == TRUE

\* OCRScan() of getOcrInstance: section 70 %, overlap 30 %
BatchImages ==
    { [kind |-> "original", mode |-> "RGB", width |-> 1, height |-> 1],
      [kind |-> "original", mode |-> "RGB", width |-> 2, height |-> 2],
      [kind |-> "unreadable", mode |-> "none", width |-> 0, height |-> 0] }

Scan == <<"S", "c", "a", "n">>

Page == <<"P", "a", "g", "e">>

\* the .tif files os.walk finds, in the order it yields them
BatchPaths ==
    { <<Scan, CodeA>>, <<CodeA, Scan>>, <<Scan, Page>>,
      <<Scan, FehlerPrefix \o Scan>>, <<Scan \o HollerithSuffix, Scan>>,
      <<CodeA, CodeA \o HollerithSuffix>> }

BatchBehaviours ==
    { [fails |-> FALSE, rows |-> <<LayoutRow>>],
      [fails |-> FALSE, rows |-> <<LayoutRow, Token(1, 90, CodeA)>>] }

BatchInit ==
    /\ image_paths \in BatchPaths
    /\ doc = 1
    /\ _isRunning = << >>
    /\ thread_run_again \in BOOLEAN
    /\ bpc = "head"
    /\ files = {image_paths[k] \o Ext : k \in 1..Len(image_paths)}
    /\ folder_name = <<"1", "2", "-", "3", "4", "_", "A">>
    /\ engines = BatchBehaviours
    /\ section_size_percentage = 70 /\ overlap_percentage = 30
    /\ confidence_threshold = 5
    /\ source \in BatchImages
    /\ file_name = image_paths[1]
    /\ run_again_with_enhanced_image = thread_run_again
    /\ pass = 1
    /\ pc = "done"
    /\ image = NoImage
    /\ x = 0 /\ y = 0
    /\ future_results = << >>
    /\ results = << >>
    /\ outcome = None
    /\ md_file = << >>
    /\ md_file_closed = "unopened"
    /\ FormatIdle

\* the head of the loop: the check of the flag and the call of ocr_on_image
BatchHead ==
    /\ bpc = "head"
    /\ doc <= Len(image_paths)
    /\ IF ~isRunning
       THEN /\ bpc' = "finished"
            /\ UNCHANGED <<source, file_name, run_again_with_enhanced_image,
                           pass, pc, image, x, y, future_results, results, outcome>>
       ELSE /\ bpc' = "ocr"
            /\ file_name' = image_paths[doc]
            /\ source' \in BatchImages
            /\ run_again_with_enhanced_image' = thread_run_again
            /\ pass' = 1
            /\ pc' = "call"
            /\ image' = NoImage
            /\ x' = 0 /\ y' = 0
            /\ future_results' = << >>
            /\ results' = << >>
            /\ outcome' = None
    /\ UNCHANGED <<folder_name, engines, files, section_size_percentage,
                   overlap_percentage, confidence_threshold, format, report,
                   image_paths, doc, _isRunning, thread_run_again>>

\* variant: the name is kept as it is
TargetName_plain(original_basename) == original_basename \o Ext

\* target_name of a document without a code
TargetName(original_basename) ==
    IF ~Contains(original_basename, FehlerPrefix)
    THEN FehlerPrefix \o original_basename \o Ext
    ELSE original_basename \o Ext

\* the statements that follow the call, up to the end of the try:
\* [ok, files], ok = FALSE when an exception reached the handler
RenameOutcome(existing, path, result) ==
    LET image_path == path \o Ext
        original_basename == path
    IN  IF Truthy(result)
        THEN \* the rename to the code; `ocr_scan.failure` then raises
             \* AttributeError: OCRScan has no such attribute
             [ok |-> FALSE,
              files |-> Rename(existing, image_path,
                               get_unique_filename(result, existing)).files]
        ELSE LET target_name == TargetName(original_basename)
             IN  IF ~Contains(original_basename, HollerithSuffix)
                 THEN Rename(existing, image_path,
                             get_unique_filename(target_name, existing))
                 ELSE [ok |-> TRUE, files |-> existing]

\* the files after these statements
RenamedFiles(existing, path, result) == RenameOutcome(existing, path, result).files

\* variant: an exception in the loop body ends the loop
AfterDocument_abort(ok) == IF ok THEN "head" ELSE "finished"

\* where the loop goes after the body: `except Exception: continue`
AfterDocument(ok) == "head"

\* variant: the call comes back as soon as the image is opened
CallReturned_async == pc # "call"

\* ocr_on_image is an ordinary call: the loop body goes on when it returned
CallReturned == pc = "done"

\* ocr_on_image has returned: rename, then the next iteration
BatchRename ==
    /\ bpc = "ocr"
    /\ CallReturned
    /\ files' = RenamedFiles(files, image_paths[doc], outcome)
    /\ doc' = doc + 1
    /\ bpc' = AfterDocument(RenameOutcome(files, image_paths[doc], outcome).ok)
    /\ UNCHANGED <<config, format, report, run_again_with_enhanced_image, pass, pc, image,
                   x, y, future_results, results, outcome, image_paths,
                   _isRunning, thread_run_again>>

\* image_paths is exhausted
BatchEnd ==
    /\ bpc = "head"
    /\ doc > Len(image_paths)
    /\ bpc' = "finished"
    /\ UNCHANGED <<ocr, format, image_paths, doc, _isRunning, thread_run_again>>

\* OCRThread.stopProcessing, called by closeEvent while the thread runs
stopProcessing ==
    /\ bpc \in {"head", "ocr"}
    /\ _isRunning = << >>
    /\ _isRunning' = <<FALSE>>
    /\ UNCHANGED <<ocr, format, image_paths, doc, thread_run_again, bpc>>

BatchNext ==
    \/ BatchHead
    \/ Next
    \/ BatchRename
    \/ BatchEnd
    \/ stopProcessing

BatchSpec == BatchInit /\ [][BatchNext]_vars

\* C20 as claimed: once stopProcessing has set the flag, the loop hands no
\* further document to ocr_on_image.
C20_NoDocumentAfterCancel ==
    [][(_isRunning = <<FALSE>>) => ~(bpc = "head" /\ bpc' = "ocr")]_vars

\* the thread runs on until its loop has ended
FairBatchSpec == BatchSpec /\ WF_vars(BatchNext)

\* the call of ocr_on_image for the current document ended in its handler
DocumentFailed ==
    \/ Unreadable(source)
    \/ /\ image # NoImage
       /\ LoopEntry(image.width, image.height, shift_width, shift_height) = "raise"

C21_UnreadableSecondDocument ==
    /\ bpc = "ocr" /\ doc = 2 /\ pc = "done" /\ Unreadable(source)
    /\ image = NoImage /\ outcome = None

\* the planning loops of the second document raised and its call returned None
C21_PlanningRaised ==
    /\ bpc = "ocr" /\ doc = 2 /\ pc = "done" /\ image # NoImage
    /\ DocumentFailed /\ outcome = None

\* the step of the loop that follows the return of ocr_on_image
RenameStep == bpc = "ocr" /\ bpc' # "ocr"

\* C22 as claimed: after a call that returned a code, the renames leave a
\* file whose name is the code followed by "_OCR-korrekt", and the source
\* file is not left under a new name without that suffix.
C22_SuccessRenamedVerified ==
    [][(RenameStep /\ Truthy(outcome)) =>
          /\ \E f \in files' : Contains(f, outcome \o Marker)
          /\ \A f \in files' \ files : Contains(f, Marker)]_vars

\* the file of the current document got a new name that carries "Fehler_"
MarkedForReview ==
    /\ (image_paths[doc] \o Ext) \notin files'
    /\ \E f \in files' \ files : Contains(f, FehlerPrefix)

\* C23 as claimed: after a call that returned no code for a document the
\* guard did not short-circuit, the file is renamed to a name that carries
\* "Fehler_".
C23_NoMatchMarked_AsClaimed ==
    [][(RenameStep /\ ~Truthy(outcome) /\ ~ShortCircuits(image_paths[doc]))
          => MarkedForReview]_vars

\* C23, amended: after a call that returned no code for a document the guard
\* did not short-circuit and whose name does not hold "_Hollerith", the file
\* is renamed to a name that carries "Fehler_"; a document whose name holds
\* "_Hollerith" keeps its name.
C23_NoMatchMarked ==
    [][(RenameStep /\ ~Truthy(outcome)) =>
          /\ (~ShortCircuits(image_paths[doc])
              /\ ~Contains(image_paths[doc], HollerithSuffix)) => MarkedForReview
          /\ Contains(image_paths[doc], HollerithSuffix) => files' = files]_vars

\* Scan.tif gave no code and is now Fehler_Scan.tif; the loop is at Page.tif
C23_Witness ==
    /\ bpc = "head" /\ doc = 2 /\ image_paths = <<Scan, Page>>
    /\ files = {FehlerPrefix \o Scan \o Ext, Page \o Ext}

\* Scan_Hollerith.tif was read, gave no code and kept its name
C23_HollerithKept ==
    /\ bpc = "head" /\ doc = 2 /\ image_paths[1] = Scan \o HollerithSuffix
    /\ results # << >> /\ outcome = None
    /\ files = {Scan \o HollerithSuffix \o Ext, Scan \o Ext}

\* C24: a rename after the call never replaces a file: the directory holds
\* as many files after it as before, at most one name leaves it (the
\* document's) and at most one name enters it, which was not there before.
C24_RenamesCollisionSafe ==
    [][RenameStep =>
          /\ Cardinality(files') = Cardinality(files)
          /\ files \ files' \subseteq {image_paths[doc] \o Ext}
          /\ Cardinality(files' \ files) <= 1]_vars

\* Scan.tif gave no code while Fehler_Scan.tif existed and became
\* Fehler_Scan_1.tif; Fehler_Scan.tif gave no code and became Fehler_Scan_2.tif
C24_Witness ==
    /\ bpc = "finished" /\ image_paths = <<Scan, FehlerPrefix \o Scan>>
    /\ files = { FehlerPrefix \o Scan \o <<"_", "1">> \o Ext,
                 FehlerPrefix \o Scan \o <<"_", "2">> \o Ext }

\* both documents gave the same code: the second is named with "_1"
C24_SameCodeTwice ==
    /\ bpc = "finished" /\ files = {CodeA, CodeA \o <<"_", "1">>}

(***************************************************************************)
(* An engine call that never returns: image_to_data is called without a   *)
(* timeout, and future.result() is called without one.                     *)
(***************************************************************************)
\* the subprocess behind image_to_data of tile k blocks for ever
EngineHangs(k) ==
    /\ future_results[k].state = "running"
    /\ future_results' = [future_results EXCEPT ![k].state = "hung"]
    /\ UNCHANGED <<config, format, batch, report, files, run_again_with_enhanced_image, pass, pc,
                   image, x, y, results, outcome>>

HangNext ==
    \/ Next
    \/ \E k \in 1..Len(future_results) : EngineHangs(k)

\* every thread that can take a step takes it
HangSpec == DocInit /\ [][HangNext]_vars /\ WF_vars(HangNext)

\* C25 as claimed: whatever the engine does, every tile comes to an end and
\* the call reaches its final outcome.
C25_EngineCallsBounded ==
    /\ (\E k \in 1..Len(future_results) : future_results[k].state = "hung")
           ~> (pc = "done")
    /\ <>(pc = "done")

(***************************************************************************)
(* The report file: every worker of a pass holds the same md_file object   *)
(* and writes a tile's two entries with two calls of md_file.write.        *)
(***************************************************************************)
ReportLine(k, part) == [tile |-> k, part |-> part]

\* _ocr_on_section up to the first md_file.write
SectionOcr(k) ==
    /\ future_results[k].state = "running"
    /\ \E engine \in engines :
          LET returned == _ocr_on_section(engine, confidence_threshold,
                                          PATTERNS, folder_name)
          IN  IF Truthy(returned.value)
              THEN /\ future_results' = [future_results EXCEPT
                          ![k].state = "reporting",
                          ![k].engine = engine,
                          ![k].outcome = returned]
                   /\ md_file' = Append(md_file, ReportLine(k, "image"))
              ELSE /\ future_results' = [future_results EXCEPT
                          ![k].state = "finished",
                          ![k].engine = engine,
                          ![k].outcome = returned]
                   /\ UNCHANGED md_file
    /\ UNCHANGED <<config, format, batch, md_file_closed, files,
                   run_again_with_enhanced_image, pass, pc,
                   image, x, y, results, outcome>>

\* the second md_file.write and the return
SectionReport(k) ==
    /\ future_results[k].state = "reporting"
    /\ future_results' = [future_results EXCEPT ![k].state = "finished"]
    /\ md_file' = Append(md_file, ReportLine(k, "text"))
    /\ UNCHANGED <<config, format, batch, md_file_closed, files,
                   run_again_with_enhanced_image, pass, pc,
                   image, x, y, results, outcome>>

ReportNext ==
    \/ AlreadyInFormat
    \/ StartOcr
    \/ OpenImage
    \/ Submit
    \/ \E k \in 1..Len(future_results) : WorkerStart(k)
    \/ \E k \in 1..Len(future_results) : SectionOcr(k)
    \/ \E k \in 1..Len(future_results) : SectionReport(k)
    \/ CollectResult
    \/ LeavePool
    \/ HandleException
    \/ RunAgain
    \/ ReturnResult

ReportSpec == DocInit /\ [][ReportNext]_vars

\* C26 as claimed: the workers' writes never mix on a common object: in the
\* report a tile's image line is followed at once by the same tile's text
\* line, and a text line follows its own image line.
C26_WorkersShareNothing ==
    \A i \in 1..Len(md_file) :
        /\ (md_file[i].part = "image" /\ i < Len(md_file)) =>
              md_file[i + 1] = ReportLine(md_file[i].tile, "text")
        /\ md_file[i].part = "text" =>
              (i > 1 /\ md_file[i - 1] = ReportLine(md_file[i].tile, "image"))

PipelineQuiet == pc = "done" /\ AllFinished

\* C27: documents are processed one after another.  Whatever a pass is doing,
\* it is doing it for the document the loop stands at; the loop goes to the
\* rename, and from there to the next document, only when the call has
\* returned with every tile worker of every pass finished.
C27_DocumentsSequential ==
    [][ /\ (~PipelineQuiet =>
               bpc = "ocr" /\ doc <= Len(image_paths) /\ file_name = image_paths[doc])
        /\ (doc' # doc => PipelineQuiet /\ bpc = "ocr" /\ doc' = doc + 1)
        /\ ((bpc = "head" /\ bpc' = "ocr") =>
               PipelineQuiet /\ file_name' = image_paths[doc]) ]_vars

\* the second document is in its second pass, with a worker at work, after
\* the first document has been renamed
C27_Witness ==
    /\ bpc = "ocr" /\ doc = 2 /\ pass = 2
    /\ Running # {}
    /\ image_paths[1] \notin files

(***************************************************************************)
(* Engine output of more than one block: image_to_data numbers the blocks  *)
(* of a section, and _ocr_image takes the mean of conf block by block.     *)
(***************************************************************************)
Digit0 == <<"0">>

Digit1 == <<"1">>

BlockBehaviours ==
    { [fails |-> FALSE, rows |-> <<LayoutRow>>],
      [fails |-> FALSE, rows |-> <<LayoutRow, Token(1, 6, CodeA)>>],
      [fails |-> FALSE, rows |-> <<LayoutRow, Token(1, 4, CodeA)>>],
      [fails |-> FALSE, rows |-> <<LayoutRow, Token(1, 6, CodeA), Token(2, 6, Digit1)>>],
      [fails |-> FALSE, rows |-> <<LayoutRow, Token(1, 9, CodeA), Token(1, 9, Digit0),
                                   LayoutRow, Token(2, 0, Digit1)>>],
      [fails |-> FALSE, rows |-> <<LayoutRow, Token(1, 0, CodeA), Token(1, 0, Digit0),
                                   LayoutRow, Token(2, 12, Digit1)>>] }

BlockInit ==
    /\ \E w \in 1..MaxDocTiles :
          source = [kind |-> "original", mode |-> "RGB", width |-> w, height |-> 1]
    /\ \E pp \in DocPercentPairs :
          section_size_percentage = pp[1] /\ overlap_percentage = pp[2]
    /\ TileCount(source.width, source.height,
                 section_size_percentage, overlap_percentage) <= MaxDocTiles
    /\ file_name \in DocFileNames
    /\ folder_name = <<"1", "2", "-", "3", "4", "_", "A">>
    /\ engines = BlockBehaviours
    /\ files = {file_name \o Ext}
    /\ confidence_threshold \in ConfidenceThresholds
    /\ run_again_with_enhanced_image \in BOOLEAN
    /\ Start
    /\ FormatIdle /\ BatchIdle

BlockSpec == BlockInit /\ [][Next]_vars

\* C28 as claimed: the confidence of a tile is the mean over its tokens, each
\* token counting once, and 0 without a token.  Every text of BlockBehaviours
\* with a token in block 1 holds a code of the folder, so a finished tile has
\* the value None exactly when that mean is below the threshold.
C28_MeanOverTokens ==
    \A k \in 1..Len(future_results) :
        LET f == future_results[k]
        IN  f.state = "finished" =>
               (f.outcome.value = None <=> LowConfidence(f.engine))

C30_RowMajorPlan ==
    (image # NoImage /\ shift_width > 0 /\ shift_height > 0) =>
        LET cols == (image.width + shift_width - 1) \div shift_width
            rows == (image.height + shift_height - 1) \div shift_height
            n == Len(future_results)
        IN  /\ \A k \in 1..n :
                  /\ future_results[k].tile.x = ((k - 1) % cols) * shift_width
                  /\ future_results[k].tile.y = ((k - 1) \div cols) * shift_height
            /\ \A j, k \in 1..n :
                  (future_results[j].tile.x = future_results[k].tile.x
                   /\ future_results[j].tile.y = future_results[k].tile.y) => j = k
            /\ pc = "submit" =>
                  /\ n < cols * rows
                  /\ x = (n % cols) * shift_width
                  /\ y = (n \div cols) * shift_height
            /\ Planned => n = cols * rows

\* a finished plan of three columns and two rows
C30_Witness ==
    /\ Planned /\ shift_width > 0 /\ shift_height > 0
    /\ (image.width + shift_width - 1) \div shift_width = 3
    /\ (image.height + shift_height - 1) \div shift_height = 2
    /\ Len(future_results) = 6
    /\ future_results[4].tile.x = 0 /\ future_results[4].tile.y = shift_height

\* C31 as claimed: with a shift <= 0 the document is aborted before any
\* recognition: no tile is submitted, no second pass is started for it, and
\* the call ends with None.
C31_DegenerateGeometryAborts ==
    (image # NoImage /\ (shift_width <= 0 \/ shift_height <= 0)) =>
        /\ future_results = << >>
        /\ pass = 1
        /\ pc = "done" => outcome = None

\* text is one of the matches some pattern finds in the tile's raw text
IsMatchOf(code, text) ==
    \E p \in 1..Len(PATTERNS) :
        LET found == FindAll(PATTERNS[p], text)
        IN  \E i \in 1..Len(found) : found[i] = code

\* C32: a code the call returns was returned by a tile of the pass that
\* produced it; that tile's engine call succeeded with a mean confidence not
\* below the threshold, the code is a match of a pattern in the tile's text
\* and it contains the prefix of the folder name.
C32_ReturnedCodeHasSource ==
    (pc = "done" /\ Truthy(outcome)) =>
        /\ HasPrefix /\ Contains(outcome, ExpectedPrefix)
        /\ \E k \in 1..Len(future_results) :
              LET f == future_results[k]
              IN  /\ f.state = "finished"
                  /\ f.outcome.value = outcome
                  /\ results[k] = outcome
                  /\ ~f.engine.fails
                  /\ ~LowConfidence(f.engine)
                  /\ IsMatchOf(outcome, TileText(f.engine))

\* the second pass returns the code of its only tile at the threshold, while
\* another tile read the same code below the threshold
C32_Witness ==
    /\ pc = "done" /\ pass = 2 /\ outcome = CodeA
    /\ Cardinality({k \in 1..Len(future_results) :
                       future_results[k].outcome.value = CodeA}) = 1
    /\ \E k \in 1..Len(future_results) :
          /\ LowConfidence(future_results[k].engine)
          /\ TileText(future_results[k].engine) = CodeA

\* C33 as claimed: the rename statements of the caller never give a document
\* that the guard short-circuited a name with the "Fehler_" marker.
C33_ShortCircuitedNeverMarked ==
    [][(RenameStep /\ ShortCircuits(image_paths[doc])) =>
          \A name \in files' \ files : ~Contains(name, FehlerPrefix)]_vars

\* C34 as claimed: a file whose name carries "Fehler_" already and that
\* yields no code again keeps its name: the caller's rename statements leave
\* the directory as it is.
C34_FailedNameStable ==
    [][(/\ RenameStep
        /\ Contains(image_paths[doc], FehlerPrefix)
        /\ (image_paths[doc] \o Ext) \in files
        /\ ~Truthy(outcome)) => files' = files]_vars

\* C35 as claimed: when the call has returned, on whatever path, the report
\* file it opened is closed.
C35_ReportClosedOnReturn ==
    (pc = "done") => md_file_closed # "open"

====
